---- MODULE Spec2Model ----
(***************************************************************************)
(* Requirement resolution of openoa/schema/metadata.py: the catalog        *)
(* ANALYSIS_REQUIREMENTS, determine_analysis_requirements and              *)
(* PlantMetaData.frequency_requirements.                                   *)
(*                                                                         *)
(* Python values are represented as follows.                               *)
(*  - an ordered dict is a sequence of entries (records with a key field); *)
(*  - a result dict (family -> value) is a function whose DOMAIN is the    *)
(*    set of keys;                                                         *)
(*  - a tuple or list of strings is a sequence, a set is a set; a value    *)
(*    that may be either a list or a set is a record tagged with its type, *)
(*    because Python's  set() == []  is False;                             *)
(*  - a raised exception is an outcome record with status "error".         *)
(***************************************************************************)
EXTENDS Integers, Sequences, FiniteSets, TLC

VARIABLES catalog, entry, which, analysis_type, pc, requirements,
          column_requirements, frequency_requirements, pos, outcome,
          mpc, cls, data, schema, source, plant

\* The state of a requirement resolution call.
resolverVars == <<catalog, entry, which, analysis_type, pc, requirements,
                  column_requirements, frequency_requirements, pos, outcome>>

\* The state of a schema construction and of a load of the plant metadata.
metaVars == <<mpc, cls, data, schema, source, plant>>

vars == <<resolverVars, metaVars>>

\* Longest list of analysis names passed to an entry point.
MaxNames == 3

Range(s) == {s[n] : n \in DOMAIN s}

EmptyDict == [x \in {} |-> {}]

\* Python's None, as an element of a list of analysis names.
None == "<None>"

\* ------------------------------------------------------------------------
\* The catalog
\* ------------------------------------------------------------------------

_at_least_monthly == <<"M", "MS", "W", "D", "H", "T", "min", "S", "L", "ms", "U", "us", "N">>

_at_least_daily == <<"D", "H", "T", "min", "S", "L", "ms", "U", "us", "N">>

_at_least_hourly == <<"H", "T", "min", "S", "L", "ms", "U", "us", "N">>

\* One family entry of an analysis: {"columns": .., "conditional_columns": .., "freq": ..}
\* conditional_columns is an ordered dict flag -> list, <<>> when the key is absent.
Family(name, columns, conditional_columns, freq) ==
    [name |-> name, columns |-> columns,
     conditional_columns |-> conditional_columns, freq |-> freq]

ANALYSIS_REQUIREMENTS ==
    << [key |-> "MonteCarloAEP", value |->
          << Family("meter", <<"MMTR_SupWh">>, <<>>, _at_least_monthly),
             Family("curtail", <<"IAVL_DnWh", "IAVL_ExtPwrDnWh">>, <<>>, _at_least_monthly),
             Family("reanalysis", <<"WMETR_HorWdSpd", "WMETR_AirDen">>,
                    << [flag |-> "reg_temperature", columns |-> <<"WMETR_EnvTmp">>],
                       [flag |-> "reg_wind_direction",
                        columns |-> <<"WMETR_HorWdSpdU", "WMETR_HorWdSpdV">>] >>,
                    _at_least_monthly) >>],
       [key |-> "TurbineLongTermGrossEnergy", value |->
          << Family("scada", <<"asset_id", "WMET_HorWdSpd", "WTUR_W">>, <<>>, _at_least_daily),
             Family("reanalysis", <<"WMETR_HorWdSpd", "WMETR_HorWdDir", "WMETR_AirDen">>,
                    <<>>, _at_least_daily) >>],
       [key |-> "ElectricalLosses", value |->
          << Family("scada", <<"asset_id", "WTUR_W">>, <<>>, _at_least_daily),
             Family("meter", <<"MMTR_SupWh">>, <<>>, _at_least_monthly) >>],
       [key |-> "WakeLosses", value |->
          << Family("scada", <<"asset_id", "WMET_HorWdSpd", "WMET_HorWdDir", "WTUR_W">>,
                    <<>>, _at_least_hourly),
             Family("reanalysis", <<"WMETR_HorWdSpd", "WMETR_HorWdDir">>,
                    <<>>, _at_least_hourly) >> ] >>

\* The keys of the catalog in use, as a set and in dict order.
CatalogKeys == {catalog[n].key : n \in DOMAIN catalog}

CatalogKeyList == [n \in DOMAIN catalog |-> catalog[n].key]

\* ANALYSIS_REQUIREMENTS[key]: the ordered family entries of a catalog key.
Lookup(key) == (CHOOSE e \in Range(catalog) : e.key = key).value

\* values.get(cat, {}).get(field, []) for field "columns"
GetColumns(key, cat) ==
    IF \E f \in Range(Lookup(key)) : f.name = cat
    THEN (CHOOSE f \in Range(Lookup(key)) : f.name = cat).columns
    ELSE <<>>

\* ------------------------------------------------------------------------
\* Helpers for Python containers
\* ------------------------------------------------------------------------

\* The keys of a dict built by inserting the items of s in order: a repeated
\* key keeps the position of its first insertion.
RECURSIVE DictKeys(_)
DictKeys(s) ==
    IF s = <<>> THEN <<>>
    ELSE LET init == DictKeys(SubSeq(s, 1, Len(s) - 1))
             last == s[Len(s)]
         IN  IF last \in Range(init) THEN init ELSE Append(init, last)

\* [x for x in s if x is not None]
RECURSIVE NotNone(_)
NotNone(s) ==
    IF s = <<>> THEN <<>>
    ELSE IF s[1] = None THEN NotNone(Tail(s)) ELSE <<s[1]>> \o NotNone(Tail(s))

\* The empty list [] and set(req), tagged with their Python type.
EmptyList == [type |-> "list", items |-> {}]

PySet(req) == [type |-> "set", items |-> Range(req)]

\* reqs.intersection(req) of a set reqs and a tuple req
Intersection(reqs, req) == [type |-> "set", items |-> reqs.items \cap Range(req)]

\* Outcomes of a call.
Raised(exc, key) ==
    [status |-> "error", exc |-> exc, key |-> key, returns |-> "nothing",
     columns |-> EmptyDict, frequency |-> EmptyDict]

Returned(what, columns, frequency) ==
    [status |-> "ok", exc |-> "", key |-> "", returns |-> what,
     columns |-> columns, frequency |-> frequency]

NoOutcome == [status |-> "running", exc |-> "", key |-> "", returns |-> "nothing",
              columns |-> EmptyDict, frequency |-> EmptyDict]

\* ------------------------------------------------------------------------
\* determine_analysis_requirements
\* ------------------------------------------------------------------------

\* if isinstance(analysis_type, str): analysis_type = [analysis_type]
AsList(at) == IF at.kind = "str" THEN <<at.val>> ELSE at.val

\* The first key of names whose catalog lookup raises KeyError, 0 if none does.
FirstUnknown(names) ==
    IF \E n \in DOMAIN names : names[n] \notin CatalogKeys
    THEN CHOOSE n \in DOMAIN names :
             /\ names[n] \notin CatalogKeys
             /\ \A m \in 1..(n - 1) : names[m] \in CatalogKeys
    ELSE 0

categories == <<"scada", "meter", "tower", "curtail", "reanalysis", "asset">>

\* As ColumnRequirements, without the filter of line 105 that drops the
\* categories whose column set is empty.
ColumnRequirements_KeepEmpty(reqs) ==
    LET chained(cat) == UNION {Range(GetColumns(reqs[n], cat)) : n \in DOMAIN reqs}
    IN  [cat \in Range(categories) |-> chained(cat)]

\* As ColumnRequirements, reading the columns of the last requirement only
\* instead of chaining those of all of them.
ColumnRequirements_LastOnly(reqs) ==
    LET chained(cat) == IF reqs = <<>> THEN {}
                        ELSE Range(GetColumns(reqs[Len(reqs)], cat))
    IN  [cat \in {c \in Range(categories) : chained(c) # {}} |-> chained(cat)]

\* column_requirements of lines 99-105, for the dict keys reqs of requirements
ColumnRequirements(reqs) ==
    LET chained(cat) == UNION {Range(GetColumns(reqs[n], cat)) : n \in DOMAIN reqs}
    IN  [cat \in {c \in Range(categories) : chained(c) # {}} |-> chained(cat)]

\* The (family name, freq) items visited by the nested loop over
\* frequency.values() and vals.items(), in visiting order.
RECURSIVE FrequencyItems(_)
FrequencyItems(reqs) ==
    IF reqs = <<>> THEN <<>>
    ELSE LET fams == Lookup(reqs[1])
         IN  [n \in DOMAIN fams |-> [name |-> fams[n].name, req |-> fams[n].freq]]
                 \o FrequencyItems(Tail(reqs))

\* {k: [] for k in set(chain.from_iterable([[*val] for val in frequency.values()]))}
InitFrequency(reqs) ==
    [k \in {it.name : it \in Range(FrequencyItems(reqs))} |-> EmptyList]

\* As StepFrequency, with a union where the code intersects.
StepFrequency_Union(fr, name, req) ==
    LET reqs == fr[name]
    IN  IF reqs = EmptyList
        THEN [fr EXCEPT ![name] = PySet(req)]
        ELSE [fr EXCEPT ![name] = [type |-> "set", items |-> reqs.items \cup Range(req)]]

\* As StepFrequency, without the seeding branch: the first accepted set is
\* intersected into the empty starting value like every later one.
StepFrequency_NoSeed(fr, name, req) ==
    [fr EXCEPT ![name] = Intersection(fr[name], req)]

\* As StepFrequency, with the test "not reqs" for "reqs == []": an empty set
\* is taken for the unseeded starting value and seeded again.
StepFrequency_Falsy(fr, name, req) ==
    LET reqs == fr[name]
    IN  IF reqs.items = {}
        THEN [fr EXCEPT ![name] = PySet(req)]
        ELSE [fr EXCEPT ![name] = Intersection(reqs, req)]

\* As StepFrequency, with the intersection computed and dropped: a family
\* keeps the set of the first analysis that touches it.
StepFrequency_KeepFirst(fr, name, req) ==
    LET reqs == fr[name]
    IN  IF reqs = EmptyList
        THEN [fr EXCEPT ![name] = PySet(req)]
        ELSE fr

\* One pass of the loop body, lines 117-121 (and 867-871).
StepFrequency(fr, name, req) ==
    LET reqs == fr[name]
    IN  IF reqs = EmptyList
        THEN [fr EXCEPT ![name] = PySet(req)]
        ELSE [fr EXCEPT ![name] = Intersection(reqs, req)]

\* The whole loop, lines 115-121 (and 865-871).
RECURSIVE FrequencyLoop(_, _)
FrequencyLoop(fr, items) ==
    IF items = <<>> THEN fr
    ELSE FrequencyLoop(StepFrequency(fr, items[1].name, items[1].req), Tail(items))

\* determine_analysis_requirements(which, analysis_type), as a function.
DetermineAnalysisRequirements(w, at) ==
    LET names == AsList(at)
        bad   == FirstUnknown(names)
        reqs  == DictKeys(names)
        cols  == IF w \in {"columns", "both"} THEN ColumnRequirements(reqs) ELSE EmptyDict
        freq  == IF w \in {"frequency", "both"}
                 THEN FrequencyLoop(InitFrequency(reqs), FrequencyItems(reqs))
                 ELSE EmptyDict
    IN  IF bad # 0 THEN Raised("KeyError", names[bad])
        ELSE Returned(w, cols, freq)

\* ------------------------------------------------------------------------
\* PlantMetaData.frequency_requirements
\* ------------------------------------------------------------------------

\* The keys of requirements, lines 849-854; defined when MethodUnknown is 0.
MethodKeys(names) ==
    IF "all" \in Range(names) THEN CatalogKeyList ELSE DictKeys(NotNone(names))

MethodUnknown(names) ==
    IF "all" \in Range(names) THEN 0 ELSE FirstUnknown(NotNone(names))

\* PlantMetaData.frequency_requirements(analysis_types), as a function.
FrequencyRequirements(names) ==
    LET bad  == MethodUnknown(names)
        reqs == MethodKeys(names)
    IN  IF bad # 0 THEN Raised("KeyError", NotNone(names)[bad])
        ELSE Returned("frequency", EmptyDict,
                      FrequencyLoop(InitFrequency(reqs), FrequencyItems(reqs)))

\* ------------------------------------------------------------------------
\* The calls, step by step
\* ------------------------------------------------------------------------

\* Lines 94-114: the lookup, the column requirements and the loop's start.
Call_determine_analysis_requirements ==
    /\ pc = "start"
    /\ entry = "determine_analysis_requirements"
    /\ LET names == AsList(analysis_type)
           bad   == FirstUnknown(names)
           reqs  == DictKeys(names)
       IN  IF bad # 0
           THEN /\ pc' = "done"
                /\ outcome' = Raised("KeyError", names[bad])
                /\ UNCHANGED <<requirements, column_requirements,
                               frequency_requirements, pos>>
           ELSE /\ requirements' = reqs
                /\ column_requirements' =
                       IF which \in {"columns", "both"}
                       THEN ColumnRequirements(reqs) ELSE column_requirements
                /\ frequency_requirements' =
                       IF which \in {"frequency", "both"}
                       THEN InitFrequency(reqs) ELSE frequency_requirements
                /\ pos' = 1
                /\ pc' = IF which \in {"frequency", "both"} /\ FrequencyItems(reqs) # <<>>
                         THEN "loop" ELSE "return"
                /\ UNCHANGED outcome
    /\ UNCHANGED <<catalog, entry, which, analysis_type>>
    /\ UNCHANGED metaVars

\* Lines 849-864: the wildcard, the lookup and the loop's start.
Call_frequency_requirements ==
    /\ pc = "start"
    /\ entry = "frequency_requirements"
    /\ LET names == analysis_type.val
           bad   == MethodUnknown(names)
           reqs  == MethodKeys(names)
       IN  IF bad # 0
           THEN /\ pc' = "done"
                /\ outcome' = Raised("KeyError", NotNone(names)[bad])
                /\ UNCHANGED <<requirements, frequency_requirements, pos>>
           ELSE /\ requirements' = reqs
                /\ frequency_requirements' = InitFrequency(reqs)
                /\ pos' = 1
                /\ pc' = IF FrequencyItems(reqs) # <<>> THEN "loop" ELSE "return"
                /\ UNCHANGED outcome
    /\ UNCHANGED <<catalog, entry, which, analysis_type, column_requirements>>
    /\ UNCHANGED metaVars

\* Lines 115-121 and 865-871: one iteration of the inner loop.
LoopStep ==
    /\ pc = "loop"
    /\ LET items == FrequencyItems(requirements)
       IN  /\ frequency_requirements' =
                  StepFrequency(frequency_requirements, items[pos].name, items[pos].req)
           /\ pos' = pos + 1
           /\ pc' = IF pos + 1 > Len(items) THEN "return" ELSE "loop"
    /\ UNCHANGED <<catalog, entry, which, analysis_type, requirements,
                   column_requirements, outcome>>
    /\ UNCHANGED metaVars

\* Lines 122-127 and 872.
Return ==
    /\ pc = "return"
    /\ pc' = "done"
    /\ outcome' =
           IF entry = "frequency_requirements"
           THEN Returned("frequency", EmptyDict, frequency_requirements)
           ELSE CASE which = "both" ->
                         Returned("both", column_requirements, frequency_requirements)
                  [] which = "columns" ->
                         Returned("columns", column_requirements, EmptyDict)
                  [] which = "frequency" ->
                         Returned("frequency", EmptyDict, frequency_requirements)
    /\ UNCHANGED <<catalog, entry, which, analysis_type, requirements,
                   column_requirements, frequency_requirements, pos>>
    /\ UNCHANGED metaVars

\* ------------------------------------------------------------------------
\* Python values of the metadata classes
\* ------------------------------------------------------------------------

\* A value tagged with its Python type: a str, a dict (a function from its
\* keys), an int, a float, None, a type object, an attrs object (the function
\* from its set attributes to their values) and attrs.NOTHING.
Str(s) == [kind |-> "str", val |-> s]

Dict(d) == [kind |-> "dict", val |-> d]

IntVal(n) == [kind |-> "int", val |-> n]

FloatVal(n) == [kind |-> "float", val |-> n]

Type(t) == [kind |-> "type", val |-> t]

PyNone == [kind |-> "None", val |-> ""]

NOTHING == [kind |-> "NOTHING", val |-> ""]

Obj(c, attrs) == [kind |-> "obj", cls |-> c, val |-> attrs]

\* attrs.field(default=.., init=.., converter=..) of an attribute name
Attr(name, init, default, converter) ==
    [name |-> name, init |-> init, default |-> default, converter |-> converter]

SCADAMetaData_dtypes ==
    Dict("time" :> Type("np.datetime64") @@ "asset_id" :> Type("str") @@
         "WTUR_W" :> Type("float") @@ "WMET_HorWdSpd" :> Type("float") @@
         "WMET_HorWdDir" :> Type("float") @@ "WTUR_TurSt" :> Type("str") @@
         "WROT_BlPthAngVal" :> Type("float") @@ "WMET_EnvTmp" :> Type("float") @@
         "WTUR_SupWh" :> Type("float"))

SCADAMetaData_units ==
    Dict("time" :> Str("datetim64[ns]") @@ "asset_id" :> PyNone @@
         "WTUR_W" :> Str("kW") @@ "WMET_HorWdSpd" :> Str("m/s") @@
         "WMET_HorWdDir" :> Str("deg") @@ "WTUR_TurSt" :> PyNone @@
         "WROT_BlPthAngVal" :> Str("deg") @@ "WMET_EnvTmp" :> Str("C") @@
         "WTUR_SupWh" :> Str("kWh"))

\* class SCADAMetaData: its attributes in declaration order, and the keys that
\* __attrs_post_init__ puts into col_map (each read from the attribute of the
\* same name), followed by col_map_reversed.
SCADAMetaData ==
    [name |-> "SCADAMetaData",
     attrs |-> <<Attr("time", TRUE, Str("time"), ""),
                 Attr("asset_id", TRUE, Str("asset_id"), ""),
                 Attr("WTUR_W", TRUE, Str("WTUR_W"), ""),
                 Attr("WMET_HorWdSpd", TRUE, Str("WMET_HorWdSpd"), ""),
                 Attr("WMET_HorWdDir", TRUE, Str("WMET_HorWdDir"), ""),
                 Attr("WTUR_TurSt", TRUE, Str("WTUR_TurSt"), ""),
                 Attr("WROT_BlPthAngVal", TRUE, Str("WROT_BlPthAngVal"), ""),
                 Attr("WMET_EnvTmp", TRUE, Str("WMET_EnvTmp"), ""),
                 Attr("frequency", TRUE, Str("10T"), ""),
                 Attr("name", FALSE, Str("scada"), ""),
                 Attr("WTUR_SupWh", FALSE, Str("WTUR_SupWh"), ""),
                 Attr("col_map", FALSE, NOTHING, ""),
                 Attr("col_map_reversed", FALSE, NOTHING, ""),
                 Attr("dtypes", FALSE, SCADAMetaData_dtypes, ""),
                 Attr("units", FALSE, SCADAMetaData_units, "")>>,
     col_map |-> << "time", "asset_id", "WTUR_W", "WMET_HorWdSpd",
                   "WMET_HorWdDir", "WTUR_TurSt", "WROT_BlPthAngVal",
                   "WMET_EnvTmp", "WTUR_SupWh" >>,
     post_init |-> TRUE,
     col_map_reversed |-> TRUE]

\* The defaults named in the docstring of SCADAMetaData ("by default ...").
SCADAMetaData_documented ==
    "time" :> Str("time") @@ "asset_id" :> Str("asset_id") @@
    "WTUR_W" :> Str("WTUR_W") @@ "WMET_HorWdSpd" :> Str("WMET_HorWdSpd") @@
    "WMET_HorWdDir" :> Str("WMET_HorWdDir") @@
    "WTUR_TurSt" :> Str("WTUR_TurSt") @@
    "WROT_BlPthAngVal" :> Str("WROT_BlPthAngVal") @@
    "WMET_EnvTmp" :> Str("WMET_EnvTmp") @@ "frequency" :> Str("10T")

MeterMetaData_dtypes ==
    Dict("time" :> Type("np.datetime64") @@ "MMTR_SupWh" :> Type("float"))

MeterMetaData_units ==
    Dict("time" :> Str("datetim64[ns]") @@ "MMTR_SupWh" :> Str("kWh"))

\* class MeterMetaData: its attributes in declaration order, and the keys that
\* __attrs_post_init__ puts into col_map (each read from the attribute of the
\* same name).
MeterMetaData ==
    [name |-> "MeterMetaData",
     attrs |-> <<Attr("time", TRUE, Str("time"), ""),
                 Attr("MMTR_SupWh", TRUE, Str("MMTR_SupWh"), ""),
                 Attr("frequency", TRUE, Str("10T"), ""),
                 Attr("name", FALSE, Str("meter"), ""),
                 Attr("col_map", FALSE, NOTHING, ""),
                 Attr("dtypes", FALSE, MeterMetaData_dtypes, ""),
                 Attr("units", FALSE, MeterMetaData_units, "")>>,
     col_map |-> << "time", "MMTR_SupWh" >>,
     post_init |-> TRUE,
     col_map_reversed |-> FALSE]

\* The defaults named in the docstring of MeterMetaData ("by default ...").
MeterMetaData_documented ==
    "time" :> Str("time") @@ "MMTR_SupWh" :> Str("MMTR_SupWh") @@
    "frequency" :> Str("10T")

TowerMetaData_dtypes ==
    Dict("time" :> Type("np.datetime64") @@ "asset_id" :> Type("str"))

TowerMetaData_units ==
    Dict("time" :> Str("datetim64[ns]") @@ "asset_id" :> PyNone)

\* class TowerMetaData: its attributes in declaration order, and the keys that
\* __attrs_post_init__ puts into col_map (each read from the attribute of the
\* same name).
TowerMetaData ==
    [name |-> "TowerMetaData",
     attrs |-> <<Attr("time", TRUE, Str("time"), ""),
                 Attr("asset_id", TRUE, Str("asset_id"), ""),
                 Attr("frequency", TRUE, Str("10T"), ""),
                 Attr("name", FALSE, Str("tower"), ""),
                 Attr("col_map", FALSE, NOTHING, ""),
                 Attr("dtypes", FALSE, TowerMetaData_dtypes, ""),
                 Attr("units", FALSE, TowerMetaData_units, "")>>,
     col_map |-> << "time", "asset_id" >>,
     post_init |-> TRUE,
     col_map_reversed |-> FALSE]

\* The defaults named in the docstring of TowerMetaData ("by default ...").
TowerMetaData_documented ==
    "time" :> Str("time") @@ "asset_id" :> Str("asset_id") @@
    "frequency" :> Str("10T")

StatusMetaData_dtypes ==
    Dict("time" :> Type("np.datetime64") @@ "asset_id" :> Type("str") @@
         "status_id" :> Type("np.int64") @@ "status_code" :> Type("np.int64") @@
         "status_text" :> Type("str"))

StatusMetaData_units ==
    Dict("time" :> Str("datetim64[ns]") @@ "asset_id" :> PyNone @@
         "status_id" :> PyNone @@ "status_code" :> PyNone @@
         "status_text" :> PyNone)

\* class StatusMetaData: its attributes in declaration order, and the keys that
\* __attrs_post_init__ puts into col_map (each read from the attribute of the
\* same name).
StatusMetaData ==
    [name |-> "StatusMetaData",
     attrs |-> <<Attr("time", TRUE, Str("time"), ""),
                 Attr("asset_id", TRUE, Str("asset_id"), ""),
                 Attr("status_id", TRUE, Str("status_id"), ""),
                 Attr("status_code", TRUE, Str("status_code"), ""),
                 Attr("status_text", TRUE, Str("status_text"), ""),
                 Attr("frequency", TRUE, Str("10T"), ""),
                 Attr("name", FALSE, Str("status"), ""),
                 Attr("col_map", FALSE, NOTHING, ""),
                 Attr("dtypes", FALSE, StatusMetaData_dtypes, ""),
                 Attr("units", FALSE, StatusMetaData_units, "")>>,
     col_map |-> << "time", "asset_id", "status_id", "status_code",
                   "status_text" >>,
     post_init |-> TRUE,
     col_map_reversed |-> FALSE]

\* The defaults named in the docstring of StatusMetaData ("by default ...").
StatusMetaData_documented ==
    "time" :> Str("time") @@ "asset_id" :> Str("asset_id") @@
    "status_id" :> Str("asset_id") @@ "status_code" :> Str("asset_id") @@
    "status_text" :> Str("asset_id") @@ "frequency" :> Str("10T")

CurtailMetaData_dtypes ==
    Dict("time" :> Type("np.datetime64") @@ "IAVL_ExtPwrDnWh" :> Type("float") @@
         "IAVL_DnWh" :> Type("float"))

CurtailMetaData_units ==
    Dict("time" :> Str("datetim64[ns]") @@ "IAVL_ExtPwrDnWh" :> Str("kWh") @@
         "IAVL_DnWh" :> Str("kWh"))

\* class CurtailMetaData: its attributes in declaration order, and the keys that
\* __attrs_post_init__ puts into col_map (each read from the attribute of the
\* same name).
CurtailMetaData ==
    [name |-> "CurtailMetaData",
     attrs |-> <<Attr("time", TRUE, Str("time"), ""),
                 Attr("IAVL_ExtPwrDnWh", TRUE, Str("IAVL_ExtPwrDnWh"), ""),
                 Attr("IAVL_DnWh", TRUE, Str("IAVL_DnWh"), ""),
                 Attr("frequency", TRUE, Str("10T"), ""),
                 Attr("name", FALSE, Str("curtail"), ""),
                 Attr("col_map", FALSE, NOTHING, ""),
                 Attr("dtypes", FALSE, CurtailMetaData_dtypes, ""),
                 Attr("units", FALSE, CurtailMetaData_units, "")>>,
     col_map |-> << "time", "IAVL_ExtPwrDnWh", "IAVL_DnWh" >>,
     post_init |-> TRUE,
     col_map_reversed |-> FALSE]

\* The defaults named in the docstring of CurtailMetaData ("by default ...").
CurtailMetaData_documented ==
    "time" :> Str("time") @@ "IAVL_ExtPwrDnWh" :> Str("IAVL_ExtPwrDnWh") @@
    "IAVL_DnWh" :> Str("IAVL_DnWh") @@ "frequency" :> Str("10T")

AssetMetaData_dtypes ==
    Dict("asset_id" :> Type("str") @@ "latitude" :> Type("float") @@
         "longitude" :> Type("float") @@ "rated_power" :> Type("float") @@
         "hub_height" :> Type("float") @@ "rotor_diameter" :> Type("float") @@
         "elevation" :> Type("float") @@ "type" :> Type("str"))

AssetMetaData_units ==
    Dict("asset_id" :> PyNone @@ "latitude" :> Str("WGS84") @@
         "longitude" :> Str("WGS84") @@ "rated_power" :> Str("kW") @@
         "hub_height" :> Str("m") @@ "rotor_diameter" :> Str("m") @@
         "elevation" :> Str("m") @@ "type" :> PyNone)

\* class AssetMetaData: its attributes in declaration order, and the keys that
\* __attrs_post_init__ puts into col_map (each read from the attribute of the
\* same name).
AssetMetaData ==
    [name |-> "AssetMetaData",
     attrs |-> <<Attr("asset_id", TRUE, Str("asset_id"), ""),
                 Attr("latitude", TRUE, Str("latitude"), ""),
                 Attr("longitude", TRUE, Str("longitude"), ""),
                 Attr("rated_power", TRUE, Str("rated_power"), ""),
                 Attr("hub_height", TRUE, Str("hub_height"), ""),
                 Attr("rotor_diameter", TRUE, Str("rotor_diameter"), ""),
                 Attr("elevation", TRUE, Str("elevation"), ""),
                 Attr("type", TRUE, Str("type"), ""),
                 Attr("name", FALSE, Str("asset"), ""),
                 Attr("col_map", FALSE, NOTHING, ""),
                 Attr("dtypes", FALSE, AssetMetaData_dtypes, ""),
                 Attr("units", FALSE, AssetMetaData_units, "")>>,
     col_map |-> << "asset_id", "latitude", "longitude", "rated_power",
                   "hub_height", "rotor_diameter", "elevation", "type" >>,
     post_init |-> TRUE,
     col_map_reversed |-> FALSE]

\* The defaults named in the docstring of AssetMetaData ("by default ...").
AssetMetaData_documented ==
    "asset_id" :> Str("asset_id") @@ "latitude" :> Str("latitude") @@
    "longitude" :> Str("longitude") @@ "rated_power" :> Str("rated_power") @@
    "hub_height" :> Str("hub_height") @@ "elevation" :> Str("elevation") @@
    "type" :> Str("type")

ReanalysisMetaData_dtypes ==
    Dict("time" :> Type("np.datetime64") @@ "WMETR_HorWdSpd" :> Type("float") @@
         "WMETR_HorWdSpdU" :> Type("float") @@
         "WMETR_HorWdSpdV" :> Type("float") @@
         "WMETR_HorWdDir" :> Type("float") @@ "WMETR_EnvTmp" :> Type("float") @@
         "WMETR_AirDen" :> Type("float") @@ "WMETR_EnvPres" :> Type("float"))

ReanalysisMetaData_units ==
    Dict("time" :> Str("datetim64[ns]") @@ "WMETR_HorWdSpd" :> Str("m/s") @@
         "WMETR_HorWdSpdU" :> Str("m/s") @@ "WMETR_HorWdSpdV" :> Str("m/s") @@
         "WMETR_HorWdDir" :> Str("deg") @@ "WMETR_EnvTmp" :> Str("K") @@
         "WMETR_AirDen" :> Str("kg/m^3") @@ "WMETR_EnvPres" :> Str("Pa"))

\* class ReanalysisMetaData: its attributes in declaration order, and the keys that
\* __attrs_post_init__ puts into col_map (each read from the attribute of the
\* same name).
ReanalysisMetaData ==
    [name |-> "ReanalysisMetaData",
     attrs |-> <<Attr("time", TRUE, Str("time"), ""),
                 Attr("WMETR_HorWdSpd", TRUE, Str("WMETR_HorWdSpd"), ""),
                 Attr("WMETR_HorWdSpdU", TRUE, Str("WMETR_HorWdSpdU"), ""),
                 Attr("WMETR_HorWdSpdV", TRUE, Str("WMETR_HorWdSpdV"), ""),
                 Attr("WMETR_HorWdDir", TRUE, Str("WMETR_HorWdDir"), ""),
                 Attr("WMETR_EnvTmp", TRUE, Str("WMETR_EnvTmp"), ""),
                 Attr("WMETR_AirDen", TRUE, Str("WMETR_AirDen"), ""),
                 Attr("WMETR_EnvPres", TRUE, Str("surface_pressure"), ""),
                 Attr("frequency", TRUE, Str("10T"), ""),
                 Attr("name", FALSE, Str("reanalysis"), ""),
                 Attr("col_map", FALSE, NOTHING, ""),
                 Attr("dtypes", FALSE, ReanalysisMetaData_dtypes, ""),
                 Attr("units", FALSE, ReanalysisMetaData_units, "")>>,
     col_map |-> << "time", "WMETR_HorWdSpd", "WMETR_HorWdSpdU",
                   "WMETR_HorWdSpdV", "WMETR_HorWdDir", "WMETR_EnvTmp",
                   "WMETR_AirDen", "WMETR_EnvPres" >>,
     post_init |-> TRUE,
     col_map_reversed |-> FALSE]

\* The defaults named in the docstring of ReanalysisMetaData ("by default ...").
ReanalysisMetaData_documented ==
    "time" :> Str("time") @@ "WMETR_HorWdSpd" :> Str("WMETR_HorWdSpd") @@
    "WMETR_HorWdSpdU" :> Str("WMETR_HorWdSpdU") @@
    "WMETR_HorWdSpdV" :> Str("WMETR_HorWdSpdV") @@
    "WMETR_HorWdDir" :> Str("WMETR_HorWdDir") @@
    "WMETR_EnvTmp" :> Str("WMETR_EnvTmp") @@
    "WMETR_AirDen" :> Str("WMETR_AirDen") @@
    "WMETR_EnvPres" :> Str("WMETR_EnvPres") @@ "frequency" :> Str("10T")

\* class PlantMetaData: no __attrs_post_init__, every attribute has a default
\* and a converter.
PlantMetaData ==
    [name |-> "PlantMetaData",
     attrs |-> <<Attr("latitude", TRUE, IntVal(0), "float"),
                 Attr("longitude", TRUE, IntVal(0), "float"),
                 Attr("capacity", TRUE, IntVal(0), "float"),
                 Attr("scada", TRUE, Dict(EmptyDict), "SCADAMetaData.from_dict"),
                 Attr("meter", TRUE, Dict(EmptyDict), "MeterMetaData.from_dict"),
                 Attr("tower", TRUE, Dict(EmptyDict), "TowerMetaData.from_dict"),
                 Attr("status", TRUE, Dict(EmptyDict), "StatusMetaData.from_dict"),
                 Attr("curtail", TRUE, Dict(EmptyDict), "CurtailMetaData.from_dict"),
                 Attr("asset", TRUE, Dict(EmptyDict), "AssetMetaData.from_dict"),
                 Attr("reanalysis", TRUE, Dict("product" :> Dict(EmptyDict)),
                      "convert_reanalysis")>>,
     col_map |-> <<>>,
     post_init |-> FALSE,
     col_map_reversed |-> FALSE]

\* The seven family schema classes.
FamilyClasses ==
    {SCADAMetaData, MeterMetaData, TowerMetaData, StatusMetaData,
     CurtailMetaData, AssetMetaData, ReanalysisMetaData}

\* ------------------------------------------------------------------------
\* FromDictMixin.from_dict and the attrs-generated construction
\* ------------------------------------------------------------------------

\* Outcomes of a construction: the object, or AttributeError with the list
\* `undefined` (sorted(set) lists each element once in a fixed order, so the
\* list is represented by its set of elements).
Built(obj) == [status |-> "ok", exc |-> "", missing |-> {}, obj |-> obj]

Failed(exc, undefined) ==
    [status |-> "error", exc |-> exc, missing |-> undefined, obj |-> PyNone]

\* float(v) of an int or of a numeric string
Float(v) ==
    IF v.kind = "str"
    THEN FloatVal(CASE v.val = "10" -> 10 [] v.val = "45" -> 45 [] OTHER -> 0)
    ELSE FloatVal(v.val)

\* As Reversed, without swapping keys and values: {k: v for k, v in ...}.
Reversed_NotSwapped(keys, col_map) ==
    [v \in {Str(keys[n]) : n \in DOMAIN keys} |-> col_map[v.val]]

\* {v: k for k, v in col_map.items()}: a column name that occurs for several
\* keys keeps the last of them in the order keys of col_map.
Reversed(keys, col_map) ==
    [v \in {col_map[keys[n]] : n \in DOMAIN keys} |->
        LET last == CHOOSE n \in DOMAIN keys :
                        /\ col_map[keys[n]] = v
                        /\ \A m \in DOMAIN keys : col_map[keys[m]] = v => m <= n
        IN  Str(keys[last])]

\* As PostInit, with a col_map of the caller-settable attributes only: the
\* attributes fixed by the class (WTUR_SupWh) are left out.
PostInit_SettableOnly(c, self) ==
    LET keys    == {k \in Range(c.col_map) :
                       \E a \in Range(c.attrs) : a.name = k /\ a.init}
        col_map == [k \in keys |-> self[k]]
        extra   == IF c.col_map_reversed THEN {"col_map", "col_map_reversed"}
                   ELSE {"col_map"}
    IN  IF ~c.post_init THEN self
        ELSE [a \in DOMAIN self \cup extra |->
                 IF a = "col_map" THEN Dict(col_map)
                 ELSE IF a = "col_map_reversed" /\ c.col_map_reversed
                      THEN Dict(Reversed(SelectSeq(c.col_map, LAMBDA k : k \in keys),
                                         col_map))
                 ELSE self[a]]

\* __attrs_post_init__ of a family schema on the attributes set by __init__
PostInit(c, self) ==
    LET col_map == [k \in Range(c.col_map) |-> self[k]]
        extra   == IF c.col_map_reversed THEN {"col_map", "col_map_reversed"}
                   ELSE {"col_map"}
    IN  IF ~c.post_init THEN self
        ELSE [a \in DOMAIN self \cup extra |->
                 IF a = "col_map" THEN Dict(col_map)
                 ELSE IF a = "col_map_reversed" /\ c.col_map_reversed
                      THEN Dict(Reversed(c.col_map, col_map))
                 ELSE self[a]]

RECURSIVE FromDict(_, _)

\* convert_reanalysis(value)
convert_reanalysis(value) ==
    Dict([k \in DOMAIN value.val |-> FromDict(ReanalysisMetaData, value.val[k].val).obj])

\* The converter of an attribute applied to the value passed to __init__.
Convert(converter, v) ==
    CASE converter = "" -> v
      [] converter = "float" -> Float(v)
      [] converter = "convert_reanalysis" -> convert_reanalysis(v)
      [] OTHER ->
           LET c == CHOOSE f \in FamilyClasses : converter = f.name \o ".from_dict"
           IN  FromDict(c, v.val).obj

\* cls(**kwargs): the attrs-generated __init__ (an init attribute takes its
\* argument or its default through its converter, a non-init attribute its
\* default, and one without default stays unset) and __attrs_post_init__.
Construct(c, kwargs) ==
    LET set == {a \in Range(c.attrs) : a.init \/ a.default # NOTHING}
        at(n) == CHOOSE a \in set : a.name = n
        self == [n \in {a.name : a \in set} |->
                    IF at(n).init
                    THEN Convert(at(n).converter,
                                 IF n \in DOMAIN kwargs THEN kwargs[n] ELSE at(n).default)
                    ELSE at(n).default]
    IN  Obj(c.name, PostInit(c, self))

\* As FromDict, without the test "and a.init" of line 158: the keys of
\* non-init attributes reach cls(**kwargs), which rejects them.
FromDict_NoInitFilter(c, d) ==
    LET kwargs == [k \in {a.name : a \in {b \in Range(c.attrs) : b.name \in DOMAIN d}}
                      |-> d[k]]
        required_inputs == {a.name : a \in {b \in Range(c.attrs) :
                                               b.init /\ b.default = NOTHING}}
        undefined == required_inputs \ DOMAIN kwargs
    IN  IF undefined # {} THEN Failed("AttributeError", undefined)
        ELSE IF \E a \in Range(c.attrs) : a.name \in DOMAIN kwargs /\ ~a.init
             THEN Failed("TypeError", {})
             ELSE Built(Construct(c, kwargs))

\* As FromDict, reporting only one of the missing required inputs.
FromDict_FirstMissing(c, d) ==
    LET kwargs == [k \in {a.name : a \in {b \in Range(c.attrs) :
                                             b.name \in DOMAIN d /\ b.init}} |-> d[k]]
        required_inputs == {a.name : a \in {b \in Range(c.attrs) :
                                               b.init /\ b.default = NOTHING}}
        undefined == required_inputs \ DOMAIN kwargs
        first == CHOOSE n \in DOMAIN c.attrs :
                     /\ c.attrs[n].name \in undefined
                     /\ \A m \in 1..(n - 1) : c.attrs[m].name \notin undefined
    IN  IF undefined # {} THEN Failed("AttributeError", {c.attrs[first].name})
        ELSE Built(Construct(c, kwargs))

\* FromDictMixin.from_dict(cls, data), lines 154-172.
FromDict(c, d) ==
    LET kwargs == [k \in {a.name : a \in {b \in Range(c.attrs) :
                                             b.name \in DOMAIN d /\ b.init}} |-> d[k]]
        required_inputs == {a.name : a \in {b \in Range(c.attrs) :
                                               b.init /\ b.default = NOTHING}}
        undefined == required_inputs \ DOMAIN kwargs
    IN  IF undefined # {} THEN Failed("AttributeError", undefined)
        ELSE Built(Construct(c, kwargs))

\* No schema, no source and no plant: the metadata state while a requirement
\* resolution call runs.
NoSchema == [status |-> "none", exc |-> "", missing |-> {}, obj |-> PyNone]

MetaIdle ==
    /\ mpc = "idle"
    /\ cls = ""
    /\ data = EmptyDict
    /\ schema = NoSchema
    /\ source = PyNone
    /\ plant = NoSchema

\* ------------------------------------------------------------------------
\* Inputs and specifications
\* ------------------------------------------------------------------------

RECURSIVE SeqsUpTo(_, _)
SeqsUpTo(S, n) ==
    IF n = 0 THEN {<<>>}
    ELSE LET shorter == SeqsUpTo(S, n - 1)
         IN  shorter \cup {Append(s, x) : s \in {t \in shorter : Len(t) = n - 1}, x \in S}

\* A name that is no analysis of any catalog.
Unknown == "Bogus"

\* The arguments of one call against the catalog c: every list of at most
\* MaxNames names drawn from the catalog's keys, the wildcard, an unknown name
\* and None, or (for the function) one such name as a plain string.
Inputs(c) ==
    LET keys  == {c[n].key : n \in DOMAIN c}
        names == keys \cup {"all", Unknown, None}
        lists == {[kind |-> "list", val |-> s] : s \in SeqsUpTo(names, MaxNames)}
        strs  == {[kind |-> "str", val |-> s] : s \in keys \cup {"all", Unknown}}
    IN  {[entry |-> "determine_analysis_requirements", which |-> w, analysis_type |-> a] :
             w \in {"columns", "frequency", "both"}, a \in lists \cup strs}
        \cup {[entry |-> "frequency_requirements", which |-> "frequency", analysis_type |-> a] :
             a \in lists}

Start(c, in) ==
    /\ catalog = c
    /\ entry = in.entry
    /\ which = in.which
    /\ analysis_type = in.analysis_type
    /\ pc = "start"
    /\ requirements = <<>>
    /\ column_requirements = EmptyDict
    /\ frequency_requirements = EmptyDict
    /\ pos = 1
    /\ outcome = NoOutcome
    /\ MetaIdle

Init == \E in \in Inputs(ANALYSIS_REQUIREMENTS) : Start(ANALYSIS_REQUIREMENTS, in)

Next ==
    \/ Call_determine_analysis_requirements
    \/ Call_frequency_requirements
    \/ LoopStep
    \/ Return

Spec == Init /\ [][Next]_vars

\* Catalogs other than the shipped one: three analyses, each touching scada
\* with one of three accepted sets or not at all, and meter or not.
AnyScada ==
    {<<>>} \cup {<<Family("scada", <<"asset_id">>, <<>>, t)>> :
                     t \in {<<"D">>, <<"H">>, <<"D", "H">>}}

AnyMeter == {<<>>, <<Family("meter", <<"MMTR_SupWh">>, <<>>, <<"D">>)>>}

AnyCatalogs ==
    {<<[key |-> "X", value |-> x[1] \o x[2]], [key |-> "Y", value |-> y[1] \o y[2]],
       [key |-> "Z", value |-> z[1] \o z[2]]>> :
         x \in AnyScada \X AnyMeter, y \in AnyScada \X AnyMeter, z \in AnyScada \X AnyMeter}

\* Frequency resolution of lists of catalog keys against any such catalog.
AnyInputs(c) ==
    LET lists == {[kind |-> "list", val |-> s] :
                      s \in SeqsUpTo({c[n].key : n \in DOMAIN c}, MaxNames)}
    IN  {[entry |-> e, which |-> "frequency", analysis_type |-> a] :
             e \in {"determine_analysis_requirements", "frequency_requirements"},
             a \in lists}

InitAny == \E c \in AnyCatalogs : \E in \in AnyInputs(c) : Start(c, in)

SpecAny == InitAny /\ [][Next]_vars

\* ------------------------------------------------------------------------
\* What the catalog declares, read off the catalog directly
\* ------------------------------------------------------------------------

AllFamilies == {"scada", "meter", "tower", "status", "curtail", "asset", "reanalysis"}

\* The families for which analysis a declares mandatory columns, and the columns.
MandatoryFamilies(a) == {f.name : f \in {g \in Range(Lookup(a)) : g.columns # <<>>}}

MandatoryColumns(a, F) ==
    UNION {Range(f.columns) : f \in {g \in Range(Lookup(a)) : g.name = F}}

\* The conditional columns analysis a declares for family F under the flags opts.
ConditionalColumns(a, F, opts) ==
    UNION {Range(cc.columns) :
             cc \in UNION {{c \in Range(f.conditional_columns) : c.flag \in opts} :
                              f \in {g \in Range(Lookup(a)) : g.name = F}}}

ConditionalOptions == {"reg_temperature", "reg_wind_direction"}

\* The families analysis a touches and its accepted frequencies for one of them.
TouchedFamilies(a) == {f.name : f \in Range(Lookup(a))}

AcceptedFrequencies(a, F) ==
    UNION {Range(f.freq) : f \in {g \in Range(Lookup(a)) : g.name = F}}

\* d.get(F, set()) on a column result
Get(d, F) == IF F \in DOMAIN d THEN d[F] ELSE {}

\* The call in progress
Names == AsList(analysis_type)

Standalone == entry = "determine_analysis_requirements"

Method == entry = "frequency_requirements"

Finished == pc = "done"

ColumnsCall == Standalone /\ which \in {"columns", "both"}

FrequencyCall == Standalone /\ which \in {"frequency", "both"}

Single(w, a) == DetermineAnalysisRequirements(w, [kind |-> "list", val |-> <<a>>])

\* ------------------------------------------------------------------------
\* Claims
\* ------------------------------------------------------------------------

\* C1: resolving columns for a one-element list [A] of a catalog analysis
\* returns a mapping whose keys are exactly the families for which A declares
\* mandatory columns and whose values are exactly A's declared column sets;
\* for ElectricalLosses it is {scada: {asset_id, WTUR_W}, meter: {MMTR_SupWh}}.
C1_SingleColumnsExact ==
    (Finished /\ ColumnsCall /\ Len(Names) = 1 /\ Names[1] \in CatalogKeys) =>
        /\ outcome.status = "ok"
        /\ DOMAIN outcome.columns = MandatoryFamilies(Names[1])
        /\ \A F \in DOMAIN outcome.columns :
               outcome.columns[F] = MandatoryColumns(Names[1], F)
        /\ Names[1] = "ElectricalLosses" =>
               outcome.columns = [F \in {"scada", "meter"} |->
                                     IF F = "scada" THEN {"asset_id", "WTUR_W"}
                                     ELSE {"MMTR_SupWh"}]

C1_Witness ==
    /\ Finished /\ ColumnsCall /\ which = "columns"
    /\ Names = <<"ElectricalLosses">>
    /\ outcome.status = "ok"
    /\ DOMAIN outcome.columns = {"scada", "meter"}

\* C2: for every pair of catalog analyses A, B and every family F, the column
\* result of [A, B] for F is the union of the column results of [A] and of [B]
\* for F (a family that is no key of a result counts as the empty set).
C2_ColumnsUnion ==
    (Finished /\ ColumnsCall /\ Len(Names) = 2 /\ Range(Names) \subseteq CatalogKeys) =>
        LET a == Single("columns", Names[1]).columns
            b == Single("columns", Names[2]).columns
        IN  /\ outcome.status = "ok"
            /\ DOMAIN outcome.columns = DOMAIN a \cup DOMAIN b
            /\ \A F \in AllFamilies : Get(outcome.columns, F) = Get(a, F) \cup Get(b, F)

C2_Witness ==
    /\ Finished /\ ColumnsCall
    /\ Names = <<"MonteCarloAEP", "WakeLosses">>
    /\ outcome.status = "ok"
    /\ {"WMETR_AirDen", "WMETR_HorWdDir"} \subseteq outcome.columns["reanalysis"]
    /\ "scada" \in DOMAIN outcome.columns /\ "curtail" \in DOMAIN outcome.columns

\* C3 as stated: for every pair of catalog analyses A, B and any family F of
\* the frequency result of [A, B], the results of [A] and of [B] both have an
\* entry for F and the result for F is their intersection.
C3_Original ==
    (Finished /\ FrequencyCall /\ Len(Names) = 2 /\ Range(Names) \subseteq CatalogKeys) =>
        LET a == Single("frequency", Names[1]).frequency
            b == Single("frequency", Names[2]).frequency
        IN  /\ outcome.status = "ok"
            /\ \A F \in DOMAIN outcome.frequency :
                   /\ F \in DOMAIN a /\ F \in DOMAIN b
                   /\ outcome.frequency[F].items = a[F].items \cap b[F].items

\* C3 amended: the keys of the frequency result of [A, B] are the families
\* touched by A or by B; for a family touched by both the value is the
\* intersection of the results of [A] and [B], for a family touched by only
\* one of them it is that analysis's own result.
C3_FrequencyIntersection ==
    (Finished /\ FrequencyCall /\ Len(Names) = 2 /\ Range(Names) \subseteq CatalogKeys) =>
        LET a == Single("frequency", Names[1]).frequency
            b == Single("frequency", Names[2]).frequency
        IN  /\ outcome.status = "ok"
            /\ DOMAIN outcome.frequency = DOMAIN a \cup DOMAIN b
            /\ \A F \in DOMAIN outcome.frequency :
                   /\ outcome.frequency[F].type = "set"
                   /\ outcome.frequency[F].items =
                          IF F \in DOMAIN a /\ F \in DOMAIN b THEN a[F].items \cap b[F].items
                          ELSE IF F \in DOMAIN a THEN a[F].items ELSE b[F].items

C3_Witness ==
    /\ Finished /\ FrequencyCall
    /\ Names = <<"MonteCarloAEP", "WakeLosses">>
    /\ outcome.status = "ok"
    /\ outcome.frequency["reanalysis"].items = Range(_at_least_hourly)
    /\ outcome.frequency["curtail"].items = Range(_at_least_monthly)
    /\ outcome.frequency["scada"].items = Range(_at_least_hourly)

\* C4: resolving frequency for a one-element list [A] of a catalog analysis
\* returns, for exactly the families A touches, the catalog's accepted
\* frequencies of A for that family as a set; the meter entry for
\* ElectricalLosses is the full monthly-or-finer set.
C4_SingleFrequencyIdentity ==
    (Finished /\ FrequencyCall /\ Len(Names) = 1 /\ Names[1] \in CatalogKeys) =>
        /\ outcome.status = "ok"
        /\ DOMAIN outcome.frequency = TouchedFamilies(Names[1])
        /\ \A F \in DOMAIN outcome.frequency :
               outcome.frequency[F] =
                   [type |-> "set", items |-> AcceptedFrequencies(Names[1], F)]
        /\ Names[1] = "ElectricalLosses" =>
               outcome.frequency["meter"].items =
                   {"M", "MS", "W", "D", "H", "T", "min", "S", "L", "ms", "U", "us", "N"}

C4_Witness ==
    /\ Finished /\ FrequencyCall /\ which = "frequency"
    /\ Names = <<"ElectricalLosses">>
    /\ outcome.status = "ok"
    /\ Cardinality(outcome.frequency["meter"].items) = 13
    /\ Cardinality(outcome.frequency["scada"].items) = 10

\* C5: resolving with the wildcard "all" gives the same outcome as resolving
\* with the explicit list of every catalog key, at every entry point.
C5_WildcardEqualsFullList ==
    (Finished /\ Names = <<"all">>) =>
        outcome = IF Method THEN FrequencyRequirements(CatalogKeyList)
                  ELSE DetermineAnalysisRequirements(
                           which, [kind |-> "list", val |-> CatalogKeyList])

\* C6: for every set of active optional-configuration flags, the column result
\* for each family is the mandatory columns of the selected analyses together
\* with their conditional columns for the active flags, and nothing else.
C6_ConditionalColumns ==
    (Finished /\ ColumnsCall /\ outcome.status = "ok") =>
        \A opts \in SUBSET ConditionalOptions : \A F \in AllFamilies :
            Get(outcome.columns, F) =
                UNION {MandatoryColumns(a, F) \cup ConditionalColumns(a, F, opts) :
                           a \in Range(requirements)}

\* The spec's ConfigurationError covers the built-in exceptions the code
\* raises for invalid caller input.
ConfigurationError(o) == o.status = "error" /\ o.exc \in {"KeyError", "ValueError"}

\* C7: whenever the list of names contains a name that is no catalog analysis
\* (other than the wildcard and None), the call fails with a
\* ConfigurationError identifying a bad name of the list and returns nothing,
\* whatever else the list contains.
C7_UnknownNameFails ==
    (Finished /\ \E n \in DOMAIN Names : Names[n] \notin CatalogKeys \cup {"all", None}) =>
        /\ ConfigurationError(outcome)
        /\ outcome.key \in Range(Names) \ CatalogKeys
        /\ outcome.returns = "nothing"

\* C8: resolving with an empty list of names fails with a ConfigurationError
\* at every entry point and returns no mapping.
C8_EmptyListFails ==
    (Finished /\ Names = <<>>) =>
        ConfigurationError(outcome) /\ outcome.returns = "nothing"

\* C9: for every list of names (None entries apart), PlantMetaData.frequency_requirements has the
\* same outcome as determine_analysis_requirements("frequency", names): the
\* same mapping when one succeeds, a failure of both when one fails.
C9_MethodEqualsFunction ==
    (Finished /\ Method /\ None \notin Range(Names)) =>
        LET f == DetermineAnalysisRequirements("frequency", analysis_type)
        IN  /\ outcome.status = f.status
            /\ outcome.status = "ok" => outcome.frequency = f.frequency

\* The empty set, as a value of the frequency result.
EmptySet == [type |-> "set", items |-> {}]

\* The families touched by the selected analyses.
Touched == UNION {TouchedFamilies(a) : a \in Range(requirements)}

\* C10: in the frequency resolution over any catalog and any sequence of
\* selected analyses, a family touched by no selected analysis is never a key
\* of the running or final result, and a family whose running intersection is
\* the empty set stays a key with the empty set for the rest of the run and in
\* the result: no later analysis seeds it again.
C10_EmptyStaysEmpty ==
    /\ [](/\ DOMAIN frequency_requirements \subseteq Touched
          /\ DOMAIN outcome.frequency \subseteq Touched
          /\ (Finished /\ outcome.status = "ok") =>
                 \A F \in DOMAIN frequency_requirements :
                     frequency_requirements[F] = EmptySet =>
                         F \in DOMAIN outcome.frequency /\ outcome.frequency[F] = EmptySet)
    /\ [][\A F \in DOMAIN frequency_requirements :
              frequency_requirements[F] = EmptySet =>
                  F \in DOMAIN frequency_requirements'
                      /\ frequency_requirements'[F] = EmptySet]_vars

\* A finished run in which two analyses with disjoint accepted sets for a
\* family were followed by a third touching the family with a non-empty set.
C10_Witness ==
    /\ Finished /\ outcome.status = "ok"
    /\ LET items == FrequencyItems(requirements)
       IN  \E n1, n2, n3 \in DOMAIN items :
               /\ n1 < n2 /\ n2 < n3
               /\ items[n1].name = items[n2].name /\ items[n2].name = items[n3].name
               /\ Range(items[n1].req) \cap Range(items[n2].req) = {}
               /\ items[n3].req # <<>>
               /\ outcome.frequency[items[n3].name] = EmptySet
               /\ \E F \in {"scada", "meter"} : F \notin DOMAIN outcome.frequency

\* ------------------------------------------------------------------------
\* Schema construction, step by step
\* ------------------------------------------------------------------------

\* Most keys of a mapping passed to from_dict.
MaxKeys == 2

\* cls.from_dict(data), lines 143-172.
Call_from_dict ==
    /\ mpc = "start"
    /\ schema' = FromDict(cls, data)
    /\ mpc' = IF schema'.status = "ok" THEN "built" ELSE "failed"
    /\ UNCHANGED <<cls, data, source, plant>>
    /\ UNCHANGED resolverVars

\* The attributes of an object that hold a str.
StrAttrs(obj) == {a \in DOMAIN obj.val : obj.val[a].kind = "str"}

\* The column name an assignment after construction stores.
Renamed == Str("renamed")

\* obj.a = v on a constructed schema: the classes are declared with
\* @define(auto_attribs=True), which does not freeze them, so the assignment
\* stores the value; __attrs_post_init__ does not run again.
SetAttr ==
    /\ mpc = "built"
    /\ \E a \in StrAttrs(schema.obj) :
           schema' = [schema EXCEPT !.obj.val[a] = Renamed]
    /\ mpc' = "assigned"
    /\ UNCHANGED <<cls, data, source, plant>>
    /\ UNCHANGED resolverVars

\* A class with required inputs, built on the same mixin.
ExampleMetaData ==
    [name |-> "ExampleMetaData",
     attrs |-> <<Attr("alpha", TRUE, NOTHING, ""),
                 Attr("beta", TRUE, NOTHING, ""),
                 Attr("gamma", TRUE, Str("gamma"), ""),
                 Attr("name", FALSE, Str("example"), ""),
                 Attr("col_map", FALSE, NOTHING, "")>>,
     col_map |-> <<"alpha", "beta", "gamma">>,
     post_init |-> TRUE,
     col_map_reversed |-> FALSE]

\* The keys tried in a mapping for class c: every attribute of the class and
\* a key of a sibling schema.
CandidateKeys(c) ==
    {a.name : a \in Range(c.attrs)}
        \cup {IF c.name = "MeterMetaData" THEN "WTUR_W" ELSE "MMTR_SupWh"}

ColumnNames == {Str("col_a"), Str("col_b")}

\* Every mapping of at most MaxKeys candidate keys to column names.
SchemaInputs(c) ==
    UNION {[K -> ColumnNames] :
               K \in {L \in SUBSET CandidateKeys(c) : Cardinality(L) <= MaxKeys}}

ResolverIdle ==
    /\ catalog = ANALYSIS_REQUIREMENTS
    /\ entry = ""
    /\ which = ""
    /\ analysis_type = [kind |-> "list", val |-> <<>>]
    /\ pc = "idle"
    /\ requirements = <<>>
    /\ column_requirements = EmptyDict
    /\ frequency_requirements = EmptyDict
    /\ pos = 1
    /\ outcome = NoOutcome

InitSchema ==
    /\ ResolverIdle
    /\ mpc = "start"
    /\ cls \in FamilyClasses \cup {ExampleMetaData}
    /\ data \in SchemaInputs(cls)
    /\ schema = NoSchema
    /\ source = PyNone
    /\ plant = NoSchema

NextSchema ==
    \/ Call_from_dict
    \/ SetAttr

SpecSchema == InitSchema /\ [][NextSchema]_vars

\* ------------------------------------------------------------------------
\* What the schema classes declare, read off the class tables
\* ------------------------------------------------------------------------

IsFamily == cls.name \in {c.name : c \in FamilyClasses}

\* The caller-settable fields of class c and the attribute of name n.
Settable(c) == {a.name : a \in {b \in Range(c.attrs) : b.init}}

AttrOf(c, n) == CHOOSE a \in Range(c.attrs) : a.name = n

\* The default named in the docstring of class c for field f.
Documented(c) ==
    CASE c.name = "SCADAMetaData" -> SCADAMetaData_documented
      [] c.name = "MeterMetaData" -> MeterMetaData_documented
      [] c.name = "TowerMetaData" -> TowerMetaData_documented
      [] c.name = "StatusMetaData" -> StatusMetaData_documented
      [] c.name = "CurtailMetaData" -> CurtailMetaData_documented
      [] c.name = "AssetMetaData" -> AssetMetaData_documented
      [] c.name = "ReanalysisMetaData" -> ReanalysisMetaData_documented

\* The constructed schema object and its column map.
Self == schema.obj.val

ColMap == schema.obj.val["col_map"].val

\* C11: for each of the seven family schemas, from_dict of an empty mapping
\* gives every caller-settable field the default named in the docstring and
\* the column map holds these defaults; from_dict of a mapping overriding one
\* field changes only that field's column-map value.
C11_DocumentedDefaults ==
    (mpc = "built" /\ IsFamily) =>
        /\ data = EmptyDict =>
               /\ \A f \in Settable(cls) :
                      f \in DOMAIN Documented(cls) /\ Self[f] = Documented(cls)[f]
               /\ \A f \in DOMAIN ColMap \cap Settable(cls) :
                      f \in DOMAIN Documented(cls) /\ ColMap[f] = Documented(cls)[f]
        /\ \A f \in Settable(cls) : DOMAIN data = {f} =>
               \A g \in DOMAIN ColMap :
                   ColMap[g] = IF g = f THEN data[f] ELSE AttrOf(cls, g).default

\* C12: for each family schema and every mapping, from_dict ignores the keys
\* that are no caller-settable field (sibling keys, name, col_map, dtypes,
\* units) without error: every settable field has the mapping's value or its
\* default, the result equals that for the mapping restricted to the settable
\* fields, and the type map and the unit map are those of the class.
C12_UnrecognizedKeysIgnored ==
    (mpc \in {"built", "failed"} /\ IsFamily) =>
        /\ schema.status = "ok"
        /\ \A f \in Settable(cls) :
               Self[f] = IF f \in DOMAIN data THEN data[f] ELSE AttrOf(cls, f).default
        /\ Self["name"] = AttrOf(cls, "name").default
        /\ schema = FromDict(cls, [k \in DOMAIN data \cap Settable(cls) |-> data[k]])
        /\ Self["dtypes"] = AttrOf(cls, "dtypes").default
        /\ Self["units"] = AttrOf(cls, "units").default

C12_Witness ==
    /\ mpc = "built" /\ cls.name = "SCADAMetaData"
    /\ DOMAIN data = {"dtypes", "MMTR_SupWh"}
    /\ Self["dtypes"] = SCADAMetaData_dtypes
    /\ "MMTR_SupWh" \notin DOMAIN Self

\* The spec's SchemaError is the AttributeError raised by from_dict.
SchemaError(o) == o.status = "error" /\ o.exc = "AttributeError"

\* The required fields of class c: caller-settable and declared without default.
Required(c) == {a.name : a \in {b \in Range(c.attrs) : b.init /\ b.default.kind = "NOTHING"}}

\* C13: from_dict of a mapping that omits required fields fails with a
\* SchemaError listing exactly the omitted required fields and produces no
\* object; when no required field is omitted it does not fail.
C13_MissingRequiredFields ==
    (mpc \in {"built", "failed"}) =>
        LET omitted == Required(cls) \ DOMAIN data
        IN  IF omitted # {}
            THEN SchemaError(schema) /\ schema.missing = omitted /\ schema.obj = PyNone
            ELSE schema.status = "ok" /\ schema.obj.kind = "obj"

C13_Witness ==
    /\ mpc = "failed" /\ cls.name = "ExampleMetaData"
    /\ DOMAIN data = {"gamma", "col_map"}
    /\ schema.missing = {"alpha", "beta"}

\* C17: a constructed family schema is frozen: no operation, an assignment to
\* one of its attributes included, changes it, so the schema stays as
\* from_dict built it and the column map's value for each field equals the
\* schema's current value of that field.
C17_SchemaFrozen ==
    (mpc \in {"built", "assigned"} /\ IsFamily) =>
        /\ schema = FromDict(cls, data)
        /\ \A f \in DOMAIN ColMap : ColMap[f] = Self[f]

\* C18: for each of the seven family schemas and every input mapping, every
\* key of the type map and every key of the unit map is a key of the column map.
C18_NoOrphanedKeys ==
    (mpc \in {"built", "assigned"} /\ IsFamily) =>
        /\ DOMAIN Self["dtypes"].val \subseteq DOMAIN ColMap
        /\ DOMAIN Self["units"].val \subseteq DOMAIN ColMap

C18_Witness ==
    /\ mpc = "built" /\ cls.name = "SCADAMetaData"
    /\ DOMAIN data = {"WTUR_W", "WTUR_SupWh"}
    /\ "WTUR_SupWh" \in DOMAIN Self["dtypes"].val
    /\ "WTUR_SupWh" \in DOMAIN Self["units"].val
    /\ ColMap["WTUR_SupWh"] = Str("WTUR_SupWh")

\* The reverse map of the constructed SCADA schema.
ColMapReversed == schema.obj.val["col_map_reversed"].val

\* C20 as stated: for every SCADA schema built from any partial mapping the
\* reverse map is the exact inverse of the column map and has as many entries.
C20_Original ==
    (mpc = "built" /\ cls.name = "SCADAMetaData") =>
        /\ \A f \in DOMAIN ColMap :
               ColMap[f] \in DOMAIN ColMapReversed /\ ColMapReversed[ColMap[f]] = Str(f)
        /\ Cardinality(DOMAIN ColMapReversed) = Cardinality(DOMAIN ColMap)

\* C20 amended: the reverse map has one entry per distinct column name of the
\* column map and maps it to a field holding that name (the last such field in
\* column-map order); when the column names are pairwise distinct it is the
\* exact inverse and has as many entries as the column map.
C20_ReverseMap ==
    (mpc = "built" /\ cls.name = "SCADAMetaData") =>
        /\ DOMAIN ColMapReversed = {ColMap[f] : f \in DOMAIN ColMap}
        /\ \A v \in DOMAIN ColMapReversed :
               /\ ColMapReversed[v].val \in DOMAIN ColMap
               /\ ColMap[ColMapReversed[v].val] = v
               /\ \A n, m \in DOMAIN cls.col_map :
                      (ColMap[cls.col_map[n]] = v /\ ColMapReversed[v] = Str(cls.col_map[m]))
                          => n <= m
        /\ (\A f, g \in DOMAIN ColMap : ColMap[f] = ColMap[g] => f = g) =>
               /\ \A f \in DOMAIN ColMap : ColMapReversed[ColMap[f]] = Str(f)
               /\ Cardinality(DOMAIN ColMapReversed) = Cardinality(DOMAIN ColMap)

C20_Witness ==
    /\ mpc = "built" /\ cls.name = "SCADAMetaData"
    /\ DOMAIN data = {"time", "WTUR_W"} /\ data["time"] # data["WTUR_W"]
    /\ ColMapReversed[data["time"]] = Str("time")
    /\ ColMapReversed[Str("WTUR_SupWh")] = Str("WTUR_SupWh")
    /\ Cardinality(DOMAIN ColMapReversed) = 9

\* The selected analyses that touch family F.
Touching(F) == {a \in Range(Names) : F \in TouchedFamilies(a)}

\* C19: for the catalog as shipped, every non-empty list of catalog analyses
\* and every family touched by one of them, the resolved frequency set is
\* non-empty and is the accepted set of the strictest selected analysis that
\* touches the family, the accepted sets being nested; the result is the same
\* for every list with the same names, whatever their order and repetition.
C19_StrictestWins ==
    (Finished /\ FrequencyCall /\ Names # <<>> /\ Range(Names) \subseteq CatalogKeys) =>
        /\ outcome.status = "ok"
        /\ DOMAIN outcome.frequency = UNION {TouchedFamilies(a) : a \in Range(Names)}
        /\ \A F \in DOMAIN outcome.frequency :
               /\ outcome.frequency[F].type = "set"
               /\ outcome.frequency[F].items # {}
               /\ \A a, b \in Touching(F) :
                      \/ AcceptedFrequencies(a, F) \subseteq AcceptedFrequencies(b, F)
                      \/ AcceptedFrequencies(b, F) \subseteq AcceptedFrequencies(a, F)
               /\ \E a \in Touching(F) :
                      /\ outcome.frequency[F].items = AcceptedFrequencies(a, F)
                      /\ \A b \in Touching(F) :
                             AcceptedFrequencies(a, F) \subseteq AcceptedFrequencies(b, F)
        /\ \A other \in SeqsUpTo(Range(Names), MaxNames) :
               Range(other) = Range(Names) =>
                   DetermineAnalysisRequirements(
                       "frequency", [kind |-> "list", val |-> other]).frequency
                       = outcome.frequency

C19_Witness ==
    /\ Finished /\ FrequencyCall
    /\ Names = <<"MonteCarloAEP", "WakeLosses", "TurbineLongTermGrossEnergy">>
    /\ outcome.status = "ok"
    /\ outcome.frequency["reanalysis"].items = Range(_at_least_hourly)
    /\ outcome.frequency["scada"].items = Range(_at_least_hourly)
    /\ outcome.frequency["meter"].items = Range(_at_least_monthly)

\* ------------------------------------------------------------------------
\* PlantMetaData: load, column_map and dtype_map
\* ------------------------------------------------------------------------

\* A str or a pathlib.Path naming a file system entry: the suffix of the name
\* as given, the suffix of Path(..).resolve() (another one when the name is a
\* symbolic link), whether it is a file, and the mapping its text decodes to.
PathTo(kind, suffix, resolved, is_file, content) ==
    [kind |-> kind,
     val |-> [suffix |-> suffix, resolved |-> resolved, is_file |-> is_file,
              content |-> content]]

\* PlantMetaData.from_json(metadata_file), lines 763-781; json.load of the
\* file's text gives the mapping `content`.
from_json(metadata_file) ==
    IF ~metadata_file.is_file THEN Failed("FileExistsError", {})
    ELSE FromDict(PlantMetaData, metadata_file.content)

\* PlantMetaData.from_yaml(metadata_file), lines 783-801.
from_yaml(metadata_file) ==
    IF ~metadata_file.is_file THEN Failed("FileExistsError", {})
    ELSE FromDict(PlantMetaData, metadata_file.content)

\* PlantMetaData.load(src), lines 803-835. A str is resolved before its
\* suffix is read (line 825), a Path is taken as given.
Load(src) ==
    IF src.kind = "obj" /\ src.cls = "PlantMetaData" THEN Built(src)
    ELSE IF src.kind \in {"str", "Path"}
    THEN LET suffix == IF src.kind = "str" THEN src.val.resolved
                       ELSE src.val.suffix
         IN  IF suffix = ".json" THEN from_json(src.val)
             ELSE IF suffix \in {".yaml", ".yml"} THEN from_yaml(src.val)
             ELSE Failed("ValueError", {})
    ELSE IF src.kind = "dict" THEN FromDict(PlantMetaData, src.val)
    ELSE Failed("ValueError", {})

\* The six families PlantMetaData holds one schema of.
FixedFamilies == {"scada", "meter", "tower", "status", "asset", "curtail"}

\* PlantMetaData.column_map, lines 718-734.
column_map(self) ==
    [f \in FixedFamilies \cup {"reanalysis"} |->
        IF f = "reanalysis"
        THEN IF self["reanalysis"].val # EmptyDict
             THEN [k \in DOMAIN self["reanalysis"].val |->
                      self["reanalysis"].val[k].val["col_map"].val]
             ELSE EmptyDict
        ELSE self[f].val["col_map"].val]

\* PlantMetaData.dtype_map, lines 736-752.
dtype_map(self) ==
    [f \in FixedFamilies \cup {"reanalysis"} |->
        IF f = "reanalysis"
        THEN IF self["reanalysis"].val # EmptyDict
             THEN [k \in DOMAIN self["reanalysis"].val |->
                      self["reanalysis"].val[k].val["dtypes"].val]
             ELSE EmptyDict
        ELSE self[f].val["dtypes"].val]

\* PlantMetaData.load(source), the whole call.
Call_load ==
    /\ mpc = "start_load"
    /\ plant' = Load(source)
    /\ mpc' = IF plant'.status = "ok" THEN "loaded" ELSE "load_failed"
    /\ UNCHANGED <<cls, data, schema, source>>
    /\ UNCHANGED resolverVars

\* Most keys of a mapping passed to load.
MaxPlantKeys == 2

\* The schema class of a family.
ClassOf(f) ==
    CASE f = "scada" -> SCADAMetaData
      [] f = "meter" -> MeterMetaData
      [] f = "tower" -> TowerMetaData
      [] f = "status" -> StatusMetaData
      [] f = "curtail" -> CurtailMetaData
      [] f = "asset" -> AssetMetaData
      [] f = "reanalysis" -> ReanalysisMetaData

\* The sub-mappings tried for a family: empty, or one of the first two fields
\* of the schema renamed.
SubInputs(c) ==
    {EmptyDict} \cup
    UNION {[{k} -> ColumnNames] : k \in {c.col_map[1], c.col_map[2]}}

Products == {"era5", "merra2"}

\* The values tried for key k of a mapping passed to load.
PlantValues(k) ==
    IF k \in FixedFamilies THEN {Dict(d) : d \in SubInputs(ClassOf(k))}
    ELSE IF k = "reanalysis"
    THEN {Dict(r) : r \in UNION {[P -> {Dict(EmptyDict),
                                        Dict("WMETR_HorWdSpd" :> Str("col_a"))}] :
                                    P \in SUBSET Products}}
    ELSE {IntVal(45), IntVal(10)}

PlantKeys == FixedFamilies \cup {"reanalysis", "latitude"}

RECURSIVE Mappings(_)
\* Every mapping with the keys K.
Mappings(K) ==
    IF K = {} THEN {EmptyDict}
    ELSE LET k == CHOOSE x \in K : TRUE
         IN  {[j \in DOMAIN m \cup {k} |-> IF j = k THEN v ELSE m[j]] :
                 m \in Mappings(K \ {k}), v \in PlantValues(k)}

PlantInputs ==
    UNION {Mappings(K) : K \in {L \in SUBSET PlantKeys : Cardinality(L) <= MaxPlantKeys}}

Suffixes == {".json", ".yaml", ".yml", ".txt", ""}

\* What load is called with: a mapping, a str or a Path, a PlantMetaData, or
\* a value of another type.
PlantSources ==
    {Dict(m) : m \in PlantInputs}
    \cup {PathTo(k, s, r, e, c) :
             k \in {"str", "Path"}, s \in Suffixes, r \in Suffixes,
             e \in {TRUE}, c \in {EmptyDict, "scada" :> Dict("time" :> Str("col_a"))}}
    \cup {PathTo(k, s, r, FALSE, EmptyDict) :
             k \in {"str", "Path"}, s \in Suffixes, r \in Suffixes}
    \cup {FromDict(PlantMetaData, m).obj :
             m \in {EmptyDict, "reanalysis" :> Dict(EmptyDict)}}
    \cup {IntVal(3), PyNone, [kind |-> "list", val |-> <<>>]}

InitPlant ==
    /\ ResolverIdle
    /\ mpc = "start_load"
    /\ cls = PlantMetaData
    /\ data = EmptyDict
    /\ schema = NoSchema
    /\ source \in PlantSources
    /\ plant = NoSchema

NextPlant == Call_load

SpecPlant == InitPlant /\ [][NextPlant]_vars

\* The loaded aggregate and the mapping it was loaded from.
Plant == plant.obj.val

M == source.val

LoadedFromMapping == mpc = "loaded" /\ source.kind = "dict"

\* The spec's NotFoundError is the FileExistsError of from_json and from_yaml.
NotFoundError(o) == o.status = "error" /\ o.exc = "FileExistsError"

\* C14: load fails without an aggregate: with NotFoundError for a path with
\* a .json, .yaml or .yml extension that names no existing file, with
\* ConfigurationError for a path with any other extension whether or not the
\* file exists, and with ConfigurationError for a source that is no
\* aggregate, mapping, string or path.
C14_LoadFailures ==
    (mpc \in {"loaded", "load_failed"}) =>
        /\ (source.kind \in {"str", "Path"}
              /\ source.val.suffix \in {".json", ".yaml", ".yml"}
              /\ ~source.val.is_file)
               => NotFoundError(plant) /\ plant.obj = PyNone
        /\ (source.kind \in {"str", "Path"}
              /\ source.val.suffix \notin {".json", ".yaml", ".yml"})
               => ConfigurationError(plant) /\ plant.obj = PyNone
        /\ source.kind \notin {"str", "Path", "dict", "obj"}
               => ConfigurationError(plant) /\ plant.obj = PyNone

\* C15: for every input mapping the loaded aggregate has all six fixed
\* families, each built from defaults when the mapping has no entry for it;
\* when the mapping has no "reanalysis" entry the aggregate has no reanalysis
\* product and the "reanalysis" entries of column_map and dtype_map are empty.
C15_FamiliesAndNoProducts ==
    (mpc \in {"loaded", "load_failed"} /\ source.kind = "dict") =>
        /\ plant.status = "ok"
        /\ \A f \in FixedFamilies :
               /\ f \in DOMAIN Plant /\ Plant[f].kind = "obj"
               /\ Plant[f].cls = ClassOf(f).name
               /\ f \notin DOMAIN M => Plant[f] = FromDict(ClassOf(f), EmptyDict).obj
        /\ "reanalysis" \notin DOMAIN M =>
               /\ Plant["reanalysis"].val = EmptyDict
               /\ column_map(Plant)["reanalysis"] = EmptyDict
               /\ dtype_map(Plant)["reanalysis"] = EmptyDict

\* The column map the mapping sub gives a schema of class c: the supplied
\* name for an overridden field, the default for an omitted one.
Expected(c, sub) ==
    [g \in Range(c.col_map) |->
        IF g \in DOMAIN sub /\ g \in Settable(c) THEN sub[g] ELSE AttrOf(c, g).default]

\* C16: the aggregate loaded from a mapping M answers column_map with, for
\* each fixed family and each reanalysis product named in M, the column names
\* M supplies for overridden fields and the defaults for omitted ones; the
\* products under "reanalysis" in column_map are exactly the product names of M.
C16_RoundTrip ==
    LoadedFromMapping =>
        LET products == IF "reanalysis" \in DOMAIN M THEN M["reanalysis"].val
                        ELSE EmptyDict
        IN  /\ \A f \in FixedFamilies :
                   column_map(Plant)[f] =
                       Expected(ClassOf(f), IF f \in DOMAIN M THEN M[f].val ELSE EmptyDict)
            /\ DOMAIN column_map(Plant)["reanalysis"] = DOMAIN products
            /\ \A k \in DOMAIN products :
                   column_map(Plant)["reanalysis"][k] =
                       Expected(ReanalysisMetaData, products[k].val)

====
